---- MODULE Spec2Model ----
(***************************************************************************)
(* rt::node_stack (memory/node_stack.hpp), rt::allocator and rt::set       *)
(* (rtcpp/memory/allocator.hpp) over one caller-provided byte buffer.      *)
(* Memory is modelled word by word: mem maps every pointer-aligned byte    *)
(* address of the buffer to the pointer-sized value stored there.          *)
(* Also modelled: the earlier pool-backed prototype bst and the main() of  *)
(* the distribution counting sort test.                                    *)
(***************************************************************************)
EXTENDS Integers, Sequences, FiniteSets, TLC

\* ------------------------------------------------------------------ sizes
PtrSize == 8          \* sizeof (char*)
S == 32               \* sizeof (bst_node<int>): llink, rlink, tag, key
NULL == 0
Base == 1000          \* address of the first byte of the buffer
NumBlocks == 4        \* blocks the buffer is sized for
MaxKey == 3           \* keys are 1..MaxKey
MaxOps == 9           \* operations in a run of one set
MaxSharedOps == 6     \* operations in a run of two sets
MaxSharedKey == 2     \* keys of the two-set runs are 1..MaxSharedKey

BufLen == 3 * PtrSize + NumBlocks * S
Keys == 1..MaxKey
SetIds == {"A", "B"}

\* pointer-aligned addresses of a buffer of n bytes at d
Words(d, n) == {d + PtrSize * i : i \in 0..((n \div PtrSize) - 1)}
Addrs == Words(Base, BufLen)

\* ------------------------------------------------------------ bst_node<T>
\* field offsets inside a node (pointer-sized fields first)
OffL == 0
OffR == 8
OffTag == 16
OffKey == 24
rbit == 1
lbit == 2

llink(m, p) == m[p + OffL]
rlink(m, p) == m[p + OffR]
tag(m, p) == m[p + OffTag]
key(m, p) == m[p + OffKey]

has_null_llink(t) == (t \div lbit) % 2 = 1
has_null_rlink(t) == (t \div rbit) % 2 = 1

\* ------------------------------------------------------------- link_stack
\* Threads the blocks of size sz in the n bytes at p; returns the top.
link_stack(m, p, n, sz) ==
  LET cnt == n \div sz IN
  IF cnt < 2
    THEN [mem |-> m, top |-> NULL]
    ELSE [mem |-> [a \in DOMAIN m |->
                     IF a = p THEN NULL
                     ELSE IF \E i \in 1..(cnt - 1) : a = p + i * sz THEN a - sz
                     ELSE m[a]],
          top |-> p + (cnt - 1) * sz]

\* ------------------------------------------------------------- node_stack
\* constructor that accepts a linked buffer whatever size it records
node_stack_ctor_any_size(m, p, n, sz) ==
  IF n < 3 * PtrSize + 2 * sz
    THEN [ok |-> FALSE, mem |-> m]
    ELSE IF m[p] # 0
      THEN [ok |-> TRUE, mem |-> [m EXCEPT ![p] = m[p] + 1]]
      ELSE LET l == link_stack(m, p + 2 * PtrSize, n - 2 * PtrSize, sz)
               m1 == [l.mem EXCEPT ![p + PtrSize] = l.top]
               m2 == [m1 EXCEPT ![p + 3 * PtrSize] = sz]
           IN [ok |-> TRUE, mem |-> [m2 EXCEPT ![p] = 1]]

\* constructor that threads the free list again on a linked buffer
node_stack_ctor_relinks(m, p, n, sz) ==
  IF n < 3 * PtrSize + 2 * sz
    THEN [ok |-> FALSE, mem |-> m]
    ELSE IF m[p] # 0 /\ m[p + 3 * PtrSize] # sz
      THEN [ok |-> FALSE, mem |-> m]
      ELSE LET l == link_stack(m, p + 2 * PtrSize, n - 2 * PtrSize, sz)
               m1 == [l.mem EXCEPT ![p + PtrSize] = l.top]
               m2 == [m1 EXCEPT ![p + 3 * PtrSize] = sz]
           IN [ok |-> TRUE, mem |-> [m2 EXCEPT ![p] = m[p] + 1]]

\* node_stack<sz>::node_stack(p, n): ok = FALSE when it throws.
node_stack_ctor(m, p, n, sz) ==
  IF n < 3 * PtrSize + 2 * sz
    THEN [ok |-> FALSE, mem |-> m]
    ELSE LET counter == m[p] IN
         IF counter # 0
           THEN IF m[p + 3 * PtrSize] # sz
                  THEN [ok |-> FALSE, mem |-> m]
                  ELSE [ok |-> TRUE, mem |-> [m EXCEPT ![p] = counter + 1]]
           ELSE LET l == link_stack(m, p + 2 * PtrSize, n - 2 * PtrSize, sz)
                    m1 == [l.mem EXCEPT ![p + PtrSize] = l.top]
                    m2 == [m1 EXCEPT ![p + 3 * PtrSize] = sz]
                IN [ok |-> TRUE, mem |-> [m2 EXCEPT ![p] = counter + 1]]

\* pop that hands out the top block without unlinking it
pop_keep_top(m, d) == [mem |-> m, p |-> m[d + PtrSize]]

\* node_stack::pop on the stack whose m_data is d
pop(m, d) ==
  LET q == m[d + PtrSize] IN
  IF q # NULL
    THEN [mem |-> [m EXCEPT ![d + PtrSize] = m[q]], p |-> q]
    ELSE [mem |-> m, p |-> q]

\* push that moves the top without linking the block to the old top
push_no_link(m, d, p) ==
  IF p = NULL THEN m ELSE [m EXCEPT ![d + PtrSize] = p]

\* node_stack::push
push(m, d, p) ==
  IF p = NULL
    THEN m
    ELSE LET m1 == [m EXCEPT ![p] = m[d + PtrSize]]
         IN [m1 EXCEPT ![d + PtrSize] = p]

\* allocator<T, N, true>::allocate: thrown = TRUE stands for std::bad_alloc
allocate(m, d) ==
  LET r == pop(m, d) IN
  [mem |-> r.mem, p |-> r.p, thrown |-> (r.p = NULL)]

\* allocator<T, N, true>::deallocate
deallocate(m, d, p) == push(m, d, p)

\* ------------------------------------------------- threaded-tree primitives
\* the loop of inorder_successor: take llink while LBIT is clear
RECURSIVE descend_left(_, _)
descend_left(m, q) ==
  IF has_null_llink(tag(m, q)) THEN q ELSE descend_left(m, llink(m, q))

\* the loop of inorder_predecessor: take rlink while RBIT is clear
RECURSIVE descend_right(_, _)
descend_right(m, q) ==
  IF has_null_rlink(tag(m, q)) THEN q ELSE descend_right(m, rlink(m, q))

\* successor that follows rlink and never descends to the leftmost node
inorder_successor_rlink_only(m, p) == rlink(m, p)

\* predecessor that follows llink and never descends to the rightmost node
inorder_predecessor_llink_only(m, p) == llink(m, p)

inorder_successor(m, p) ==
  IF has_null_rlink(tag(m, p)) THEN rlink(m, p) ELSE descend_left(m, rlink(m, p))

inorder_predecessor(m, p) ==
  IF has_null_llink(tag(m, p)) THEN llink(m, p) ELSE descend_right(m, llink(m, p))

\* follow rlink across threads until a real right link is found
RECURSIVE skip_threads(_, _)
skip_threads(m, q) ==
  IF has_null_rlink(tag(m, q)) THEN skip_threads(m, rlink(m, q)) ELSE rlink(m, q)

preorder_successor(m, p) ==
  IF ~has_null_llink(tag(m, p)) THEN llink(m, p) ELSE skip_threads(m, p)

\* t & b for a one-bit mask b
TagAnd(t, b) == IF (t \div b) % 2 = 1 THEN b ELSE 0

\* attach_node_left whose new node's llink is set to the parent
attach_node_left_to_parent(m, p, q) ==
  [m EXCEPT ![q + OffL] = p,
            ![q + OffR] = p,
            ![q + OffTag] = TagAnd(tag(m, p), lbit) + rbit,
            ![p + OffL] = q,
            ![p + OffTag] = TagAnd(tag(m, p), rbit)]

\* splice q as the left child of p (LBIT(p) is set before)
attach_node_left(m, p, q) ==
  [m EXCEPT ![q + OffL] = llink(m, p),
            ![q + OffR] = p,
            ![q + OffTag] = TagAnd(tag(m, p), lbit) + rbit,
            ![p + OffL] = q,
            ![p + OffTag] = TagAnd(tag(m, p), rbit)]

\* splice q as the right child of p (RBIT(p) is set before)
attach_node_right(m, p, q) ==
  [m EXCEPT ![q + OffR] = rlink(m, p),
            ![q + OffL] = p,
            ![q + OffTag] = TagAnd(tag(m, p), rbit) + lbit,
            ![p + OffR] = q,
            ![p + OffTag] = TagAnd(tag(m, p), lbit)]

\* -------------------------------------------------------------------- set
\* a comparator that is not strict
m_comp_not_strict(a, b) == a <= b

\* std::less<int>
m_comp(a, b) == a < b

get_node(m, d) == allocate(m, d)

\* constructs the key in place; constructing an int cannot throw
safe_construct(m, p, k) == [m EXCEPT ![p + OffKey] = k]

\* head reset that also marks the head's rlink as a thread
reset_head_rbit(m, h) ==
  [m EXCEPT ![h + OffL] = h, ![h + OffR] = h, ![h + OffTag] = lbit + rbit]

\* m_head->llink = m_head; m_head->rlink = m_head; m_head->tag = detail::lbit
reset_head(m, h) ==
  [m EXCEPT ![h + OffL] = h, ![h + OffR] = h, ![h + OffTag] = lbit]

\* get_node, safe_construct, attach_node_left, return (q, true)
insert_left(m, d, p, k) ==
  LET a == get_node(m, d) IN
  IF a.thrown
    THEN [mem |-> a.mem, ret |-> NULL, ok |-> FALSE, thrown |-> TRUE]
    ELSE [mem |-> attach_node_left(safe_construct(a.mem, a.p, k), p, a.p),
          ret |-> a.p, ok |-> TRUE, thrown |-> FALSE]

insert_right(m, d, p, k) ==
  LET a == get_node(m, d) IN
  IF a.thrown
    THEN [mem |-> a.mem, ret |-> NULL, ok |-> FALSE, thrown |-> TRUE]
    ELSE [mem |-> attach_node_right(safe_construct(a.mem, a.p, k), p, a.p),
          ret |-> a.p, ok |-> TRUE, thrown |-> FALSE]

\* insert loop that attaches a greater key on the left
RECURSIVE insert_loop_left_only(_, _, _, _)
insert_loop_left_only(m, d, p, k) ==
  IF m_comp(k, key(m, p))
    THEN IF ~has_null_llink(tag(m, p))
           THEN insert_loop_left_only(m, d, llink(m, p), k)
           ELSE insert_left(m, d, p, k)
    ELSE IF m_comp(key(m, p), k)
      THEN IF ~has_null_rlink(tag(m, p))
             THEN insert_loop_left_only(m, d, rlink(m, p), k)
             ELSE insert_left(m, d, p, k)
      ELSE [mem |-> m, ret |-> p, ok |-> FALSE, thrown |-> FALSE]

\* the for (;;) loop of set::insert
RECURSIVE insert_loop(_, _, _, _)
insert_loop(m, d, p, k) ==
  IF m_comp(k, key(m, p))
    THEN IF ~has_null_llink(tag(m, p))
           THEN insert_loop(m, d, llink(m, p), k)
           ELSE insert_left(m, d, p, k)
    ELSE IF m_comp(key(m, p), k)
      THEN IF ~has_null_rlink(tag(m, p))
             THEN insert_loop(m, d, rlink(m, p), k)
             ELSE insert_right(m, d, p, k)
      ELSE [mem |-> m, ret |-> p, ok |-> FALSE, thrown |-> FALSE]

\* set::insert(key) on the set with head h and pool d
set_insert(m, d, h, k) ==
  IF has_null_llink(tag(m, h))
    THEN insert_left(m, d, h, k)
    ELSE insert_loop(m, d, llink(m, h), k)

\* find loop that returns the last node visited instead of end()
RECURSIVE find_loop_last_node(_, _, _, _)
find_loop_last_node(m, h, p, k) ==
  IF m_comp(k, key(m, p))
    THEN IF ~has_null_llink(tag(m, p)) THEN find_loop_last_node(m, h, llink(m, p), k) ELSE p
    ELSE IF m_comp(key(m, p), k)
      THEN IF ~has_null_rlink(tag(m, p)) THEN find_loop_last_node(m, h, rlink(m, p), k) ELSE p
      ELSE p

\* the for (;;) loop of set::find
RECURSIVE find_loop(_, _, _, _)
find_loop(m, h, p, k) ==
  IF m_comp(k, key(m, p))
    THEN IF ~has_null_llink(tag(m, p)) THEN find_loop(m, h, llink(m, p), k) ELSE h
    ELSE IF m_comp(key(m, p), k)
      THEN IF ~has_null_rlink(tag(m, p)) THEN find_loop(m, h, rlink(m, p), k) ELSE h
      ELSE p

set_find(m, h, k) ==
  IF has_null_llink(tag(m, h)) THEN h ELSE find_loop(m, h, llink(m, h), k)

\* the for (;;) loop of set::count
RECURSIVE count_loop(_, _, _)
count_loop(m, p, k) ==
  IF m_comp(k, key(m, p))
    THEN IF ~has_null_llink(tag(m, p)) THEN count_loop(m, llink(m, p), k) ELSE 0
    ELSE IF m_comp(key(m, p), k)
      THEN IF ~has_null_rlink(tag(m, p)) THEN count_loop(m, rlink(m, p), k) ELSE 0
      ELSE 1

set_count(m, h, k) ==
  IF has_null_llink(tag(m, h)) THEN 0 ELSE count_loop(m, llink(m, h), k)

\* clear loop that leaves the loop before returning the last node
RECURSIVE clear_loop_break_first(_, _, _, _)
clear_loop_break_first(m, d, h, p) ==
  LET q == inorder_successor(m, p)
      m1 == IF p # h THEN deallocate(m, d, p) ELSE m
  IN IF q = h THEN m ELSE clear_loop_break_first(m1, d, h, q)

\* the for (;;) loop of set::clear, entered with p
RECURSIVE clear_loop(_, _, _, _)
clear_loop(m, d, h, p) ==
  LET q == inorder_successor(m, p)
      m1 == IF p # h THEN deallocate(m, d, p) ELSE m
  IN IF q = h THEN m1 ELSE clear_loop(m1, d, h, q)

set_clear(m, d, h) == reset_head(clear_loop(m, d, h, h), h)

set_begin(m, h) == inorder_successor(m, h)
set_end(m, h) == h

\* std::distance(begin(), end())
RECURSIVE distance(_, _, _)
distance(m, p, e) == IF p = e THEN 0 ELSE 1 + distance(m, inorder_successor(m, p), e)

set_size(m, h) == distance(m, set_begin(m, h), set_end(m, h))
set_empty(m, h) == set_begin(m, h) = set_end(m, h)

\* the for (;;) loop of set::copy: p walks the source, q the destination;
\* nodes come from the source's allocator d
RECURSIVE copy_loop(_, _, _, _, _)
copy_loop(m, d, sh, p, q) ==
  LET a == IF ~has_null_llink(tag(m, p))
             THEN get_node(m, d)
             ELSE [mem |-> m, p |-> NULL, thrown |-> FALSE]
  IN IF a.thrown THEN [mem |-> a.mem, thrown |-> TRUE] ELSE
     LET m1 == IF ~has_null_llink(tag(m, p))
                 THEN attach_node_left(a.mem, q, a.p) ELSE m
         p2 == preorder_successor(m1, p)
         q2 == preorder_successor(m1, q)
     IN IF p2 = sh THEN [mem |-> m1, thrown |-> FALSE] ELSE
        LET b == IF ~has_null_rlink(tag(m1, p2))
                   THEN get_node(m1, d)
                   ELSE [mem |-> m1, p |-> NULL, thrown |-> FALSE]
        IN IF b.thrown THEN [mem |-> b.mem, thrown |-> TRUE] ELSE
           LET m2 == IF ~has_null_rlink(tag(m1, p2))
                       THEN attach_node_right(b.mem, q2, b.p) ELSE m1
               m3 == [m2 EXCEPT ![q2 + OffKey] = key(m2, p2)]
           IN copy_loop(m3, d, sh, p2, q2)

\* source.copy(destination): sh, d are the source's head and pool
set_copy(m, d, sh, dh) == copy_loop(m, d, sh, sh, dh)

\* set::set(comp, alloc): rebinding the allocator runs node_stack's
\* constructor over (d, n); then the head is taken from the pool.
\* ok = FALSE when the constructor throws (runtime_error or bad_alloc).
set_ctor(m, d, n) ==
  LET r == node_stack_ctor(m, d, n, S) IN
  IF ~r.ok THEN [mem |-> r.mem, ok |-> FALSE, head |-> NULL] ELSE
  LET a == get_node(r.mem, d) IN
  IF a.thrown
    THEN [mem |-> a.mem, ok |-> FALSE, head |-> NULL]
    ELSE [mem |-> reset_head(a.mem, a.p), ok |-> TRUE, head |-> a.p]

\* copy constructor that takes over the source's head instead of copying
set_copy_ctor_alias(m, d, sh) == [mem |-> m, thrown |-> FALSE, head |-> sh]

\* set::set(const set& rhs) noexcept: the allocator is copied member by
\* member (no rebind), the head comes from rhs's pool d, then clear and copy.
set_copy_ctor(m, d, sh) ==
  LET a == get_node(m, d) IN
  IF a.thrown THEN [mem |-> a.mem, thrown |-> TRUE, head |-> NULL] ELSE
  LET m1 == set_clear(reset_head(a.mem, a.p), d, a.p)
      c == set_copy(m1, d, sh, a.p)
  IN [mem |-> c.mem, thrown |-> c.thrown, head |-> a.p]

\* set::operator=(const set& rhs) noexcept on the set (dd, dh); the
\* allocator is not propagated
set_assign(m, dd, dh, sd, sh) ==
  IF dh = sh
    THEN [mem |-> m, thrown |-> FALSE]
    ELSE set_copy(set_clear(m, dd, dh), sd, sh, dh)

\* set::~set
set_dtor(m, d, h) == deallocate(set_clear(m, d, h), d, h)

\* ------------------------------------------------------------------ state
VARIABLES
  mem,         \* the words of the buffer
  sets,        \* per set object: live, m_head, the pool's m_data
  last,        \* the last operation and what it returned
  given,       \* per set: keys passed to insert since it was last empty
  terminated,  \* std::terminate was called (exception left a noexcept function)
  steps,       \* operations performed so far
  stack,       \* a node_stack used directly: the block size of the first
               \* link (0 before it) and the blocks pop has handed out
  main,        \* the locals of the sorting test's main() and its position
  bst          \* the prototype bst: its avail pointer, the constructor's
               \* reserve_n, and whether a call of it never returned

vars == <<mem, sets, last, given, terminated, steps, stack, main, bst>>

NoSet == [live |-> FALSE, head |-> NULL, data |-> NULL]
NoStack == [S |-> 0, held |-> {}]
NoBst == [avail |-> NULL, reserve_n |-> 0, hung |-> FALSE]
NoMain == [pc |-> "none", N |-> 0, A |-> 0, B |-> 0, input |-> <<>>, data |-> <<>>, ret |-> 0]
Ret(op, s, k, r, b) == [op |-> op, s |-> s, k |-> k, ret |-> r, ok |-> b]

Init ==
  /\ mem = [a \in Addrs |-> 0]
  /\ sets = [s \in SetIds |-> NoSet]
  /\ last = Ret("none", "-", 0, NULL, FALSE)
  /\ given = [s \in SetIds |-> {}]
  /\ terminated = FALSE
  /\ steps = 0
  /\ stack = NoStack
  /\ main = NoMain
  /\ bst = NoBst

Construct(s) ==
  /\ ~terminated
  /\ ~sets[s].live
  /\ LET r == set_ctor(mem, Base, BufLen) IN
       /\ mem' = r.mem
       /\ sets' = [sets EXCEPT ![s] =
                     IF r.ok THEN [live |-> TRUE, head |-> r.head, data |-> Base]
                     ELSE NoSet]
       /\ last' = Ret("construct", s, 0, r.head, r.ok)
  /\ given' = [given EXCEPT ![s] = {}]
  /\ UNCHANGED terminated

Insert(s, k) ==
  /\ ~terminated
  /\ sets[s].live
  /\ LET r == set_insert(mem, sets[s].data, sets[s].head, k) IN
       /\ mem' = r.mem
       /\ last' = Ret("insert", s, k, r.ret, r.ok)
       /\ terminated' = r.thrown
  /\ given' = [given EXCEPT ![s] = @ \cup {k}]
  /\ UNCHANGED sets

Find(s, k) ==
  /\ ~terminated
  /\ sets[s].live
  /\ last' = Ret("find", s, k, set_find(mem, sets[s].head, k), FALSE)
  /\ UNCHANGED <<mem, sets, given, terminated>>

Count(s, k) ==
  /\ ~terminated
  /\ sets[s].live
  /\ last' = Ret("count", s, k, set_count(mem, sets[s].head, k), FALSE)
  /\ UNCHANGED <<mem, sets, given, terminated>>

Clear(s) ==
  /\ ~terminated
  /\ sets[s].live
  /\ mem' = set_clear(mem, sets[s].data, sets[s].head)
  /\ last' = Ret("clear", s, 0, NULL, TRUE)
  /\ given' = [given EXCEPT ![s] = {}]
  /\ UNCHANGED <<sets, terminated>>

Destroy(s) ==
  /\ ~terminated
  /\ sets[s].live
  /\ mem' = set_dtor(mem, sets[s].data, sets[s].head)
  /\ sets' = [sets EXCEPT ![s] = NoSet]
  /\ last' = Ret("destroy", s, 0, NULL, TRUE)
  /\ given' = [given EXCEPT ![s] = {}]
  /\ UNCHANGED terminated

CopyConstruct(s, src) ==
  /\ ~terminated
  /\ ~sets[s].live
  /\ sets[src].live
  /\ LET r == set_copy_ctor(mem, sets[src].data, sets[src].head) IN
       /\ mem' = r.mem
       /\ sets' = [sets EXCEPT ![s] =
                     IF r.head # NULL
                       THEN [live |-> TRUE, head |-> r.head, data |-> sets[src].data]
                       ELSE NoSet]
       /\ last' = Ret("copy", s, 0, r.head, ~r.thrown)
       /\ terminated' = r.thrown
  /\ given' = [given EXCEPT ![s] = given[src]]

Assign(s, src) ==
  /\ ~terminated
  /\ sets[s].live
  /\ sets[src].live
  /\ LET r == set_assign(mem, sets[s].data, sets[s].head,
                         sets[src].data, sets[src].head) IN
       /\ mem' = r.mem
       /\ last' = Ret("assign", s, 0, NULL, ~r.thrown)
       /\ terminated' = r.thrown
  /\ given' = [given EXCEPT ![s] = given[src]]
  /\ UNCHANGED sets

\* One set object over the buffer; runs of at most MaxOps operations.
Tick == steps < MaxOps /\ steps' = steps + 1 /\ UNCHANGED <<stack, main, bst>>

Next ==
  \/ \E k \in Keys : Insert("A", k) /\ Tick
  \/ \E k \in Keys : Find("A", k) /\ Tick
  \/ \E k \in Keys : Count("A", k) /\ Tick
  \/ Construct("A") /\ Tick
  \/ Clear("A") /\ Tick
  \/ Destroy("A") /\ Tick

Spec == Init /\ [][Next]_vars

\* Two set objects sharing the buffer, with copy construction and copy
\* assignment between them; runs of at most MaxSharedOps operations.
TickShared ==
  steps < MaxSharedOps /\ steps' = steps + 1 /\ UNCHANGED <<stack, main, bst>>
SharedKeys == 1..MaxSharedKey

NextShared ==
  \/ \E s \in SetIds : Construct(s) /\ TickShared
  \/ \E s \in SetIds, k \in SharedKeys : Insert(s, k) /\ TickShared
  \/ \E s \in SetIds : Clear(s) /\ TickShared
  \/ \E s \in SetIds : Destroy(s) /\ TickShared
  \/ \E s \in SetIds : \E src \in SetIds \ {s} : CopyConstruct(s, src) /\ TickShared
  \/ \E s \in SetIds, src \in SetIds : Assign(s, src) /\ TickShared

SpecShared == Init /\ [][NextShared]_vars

\* ------------------------------------------------------------ observation
\* the blocks link_stack lays out in a buffer of n bytes at d
Blocks(d, n) ==
  {d + 2 * PtrSize + i * S : i \in 0..(((n - 2 * PtrSize) \div S) - 1)}
Pool == Blocks(Base, BufLen)

Range(q) == {q[i] : i \in 1..Len(q)}
Occurs(q, x) == Cardinality({i \in 1..Len(q) : q[i] = x})
Reverse(q) == [i \in 1..Len(q) |-> q[Len(q) + 1 - i]]
Bad == 0 - 1  \* marks a walk that left the pool or did not end

\* the chain of free blocks from the free-list top, as successive pops see it
RECURSIVE FreeWalk(_, _, _)
FreeWalk(m, q, fuel) ==
  IF q = NULL THEN <<>>
  ELSE IF fuel = 0 \/ q \notin Pool THEN <<Bad>>
  ELSE <<q>> \o FreeWalk(m, m[q], fuel - 1)
FreeList(m, d) == FreeWalk(m, m[d + PtrSize], Cardinality(Pool))

\* the nodes of the subtree at p in inorder, following child links only
RECURSIVE SubInorder(_, _, _)
SubInorder(m, p, fuel) ==
  IF fuel = 0 \/ p \notin Pool THEN <<Bad>>
  ELSE (IF has_null_llink(tag(m, p)) THEN <<>> ELSE SubInorder(m, llink(m, p), fuel - 1))
       \o <<p>> \o
       (IF has_null_rlink(tag(m, p)) THEN <<>> ELSE SubInorder(m, rlink(m, p), fuel - 1))

\* the real nodes of the tree under head h, in inorder
TreeInorder(m, h) ==
  IF has_null_llink(tag(m, h)) THEN <<>> ELSE SubInorder(m, llink(m, h), Cardinality(Pool))

Sound(q) == \A i \in 1..Len(q) : q[i] \in Pool
KeysOf(m, q) == [i \in 1..Len(q) |-> key(m, q[i])]

LiveSets == {s \in SetIds : sets[s].live}
Tree(s) == TreeInorder(mem, sets[s].head)
Linked == mem[Base] # 0

\* the cursors ++ visits from p until e
RECURSIVE Forward(_, _, _, _)
Forward(m, p, e, fuel) ==
  IF p = e THEN <<>>
  ELSE IF fuel = 0 \/ p \notin Pool THEN <<Bad>>
  ELSE <<p>> \o Forward(m, inorder_successor(m, p), e, fuel - 1)
\* std::reverse_iterator: from base p until base e, reading --base
RECURSIVE Backward(_, _, _, _)
Backward(m, p, e, fuel) ==
  IF p = e THEN <<>>
  ELSE LET x == inorder_predecessor(m, p) IN
       IF fuel = 0 \/ x \notin Pool THEN <<Bad>>
       ELSE <<x>> \o Backward(m, x, e, fuel - 1)

\* number of live nodes (heads and tree nodes of live sets) in block b
Owners(b) ==
  Cardinality({s \in LiveSets : sets[s].head = b})
  + Cardinality({<<s, i>> \in LiveSets \X (1..Cardinality(Pool)) :
                   i <= Len(Tree(s)) /\ Tree(s)[i] = b})

\* ----------------------------------------------------------------- claims
\* C1: between operations on a linked buffer every block of the payload is
\* on the free list or owned by exactly one live node (a head or a tree
\* node of a live set), never both and never neither.
C1_BlockPartition ==
  (Linked /\ ~terminated) =>
    /\ Sound(FreeList(mem, Base))
    /\ \A b \in Pool : Occurs(FreeList(mem, Base), b) + Owners(b) = 1

\* a copy between two sets sharing the buffer has run and both hold nodes
C1_Witness ==
  /\ ~terminated /\ last.op \in {"copy", "assign"} /\ last.ok
  /\ LiveSets = SetIds
  /\ \A s \in SetIds : Len(Tree(s)) >= 1
  /\ FreeList(mem, Base) = <<>>

\* C2: in every tree built by inserts, for every node n all keys of n's
\* left subtree are strictly less than n's key and all keys of its right
\* subtree strictly greater, so the inorder keys strictly increase.
C2_SearchOrder ==
  ~terminated =>
    \A s \in LiveSets :
      LET T == Tree(s) IN
      /\ Sound(T)
      /\ \A i \in 1..(Len(T) - 1) : m_comp(key(mem, T[i]), key(mem, T[i + 1]))
      /\ \A i \in 1..Len(T) :
           LET n == T[i]
               L == IF has_null_llink(tag(mem, n)) THEN <<>>
                    ELSE SubInorder(mem, llink(mem, n), Cardinality(Pool))
               R == IF has_null_rlink(tag(mem, n)) THEN <<>>
                    ELSE SubInorder(mem, rlink(mem, n), Cardinality(Pool))
           IN /\ \A j \in 1..Len(L) : m_comp(key(mem, L[j]), key(mem, n))
              /\ \A j \in 1..Len(R) : m_comp(key(mem, n), key(mem, R[j]))

\* a three-node tree whose root has a real left and a real right child
C2_Witness ==
  /\ ~terminated /\ sets["A"].live /\ last.op = "insert" /\ last.ok
  /\ Len(Tree("A")) = 3
  /\ tag(mem, llink(mem, sets["A"].head)) = 0

\* C3: every node with LBIT set has llink at its inorder predecessor (the
\* head for the leftmost node), every node with RBIT set has rlink at its
\* inorder successor (the head for the rightmost node); the root of a
\* one-element tree has both bits set and both links at the head.
C3_Threads ==
  ~terminated =>
    \A s \in LiveSets :
      LET T == Tree(s)
          h == sets[s].head
      IN /\ Sound(T)
         /\ \A i \in 1..Len(T) :
              /\ has_null_llink(tag(mem, T[i])) =>
                   llink(mem, T[i]) = (IF i = 1 THEN h ELSE T[i - 1])
              /\ has_null_rlink(tag(mem, T[i])) =>
                   rlink(mem, T[i]) = (IF i = Len(T) THEN h ELSE T[i + 1])
         /\ Len(T) = 1 =>
              /\ tag(mem, T[1]) = lbit + rbit
              /\ llink(mem, T[1]) = h
              /\ rlink(mem, T[1]) = h

\* a three-node chain: the middle node has one thread and one child
C3_Witness ==
  /\ ~terminated /\ sets["A"].live /\ last.op = "insert" /\ last.ok
  /\ Len(Tree("A")) = 3
  /\ \E i \in 1..3 : tag(mem, Tree("A")[i]) \in {lbit, rbit}

\* the keys stored in the tree of set s
TreeKeys(s) == {key(mem, Tree(s)[i]) : i \in 1..Len(Tree(s))}
\* the node of set s holding key k (the head when there is none)
NodeOf(s, k) ==
  IF k \in TreeKeys(s)
    THEN CHOOSE n \in Range(Tree(s)) : key(mem, n) = k
    ELSE sets[s].head

\* C4: insert of a key not in the set when the pool has no free block
\* returns (end(), false) and leaves the tree and the free list unchanged.
C4_ExhaustedInsert ==
  [][(/\ last'.op = "insert"
      /\ FreeList(mem, sets[last'.s].data) = <<>>
      /\ last'.k \notin TreeKeys(last'.s))
     => (/\ ~terminated'
         /\ last'.ret = sets[last'.s].head
         /\ ~last'.ok
         /\ mem' = mem)]_vars

\* C5: insert(k) of a key already in the set returns (cursor to the
\* existing node, false), takes no block and changes nothing; a following
\* find(k) or insert(k) returns the same cursor, the insert with false.
C5_DuplicateInsert ==
  [][/\ (last'.op = "insert" /\ last'.k \in TreeKeys(last'.s))
          => (/\ ~terminated'
              /\ ~last'.ok
              /\ last'.ret = NodeOf(last'.s, last'.k)
              /\ mem' = mem
              /\ sets' = sets)
     /\ (/\ last.op = "insert" /\ ~terminated
         /\ last'.op \in {"insert", "find"}
         /\ last'.s = last.s /\ last'.k = last.k)
          => (/\ last'.ret = last.ret
              /\ ~last'.ok)]_vars

\* insert of a key found below the root of a three-node tree
C5_Witness ==
  /\ ~terminated /\ last.op = "insert" /\ ~last.ok
  /\ Len(Tree(last.s)) = 3
  /\ last.ret = NodeOf(last.s, last.k)
  /\ last.ret # llink(mem, sets[last.s].head)

\* C6: forward iteration from begin() to end() yields exactly the distinct
\* keys given to insert, in strictly increasing order, and size() is their
\* number.
C6_SortedDistinct ==
  ~terminated =>
    \A s \in LiveSets :
      LET h == sets[s].head
          F == Forward(mem, set_begin(mem, h), set_end(mem, h), Cardinality(Pool))
      IN /\ Sound(F)
         /\ Range(KeysOf(mem, F)) = given[s]
         /\ \A i \in 1..(Len(F) - 1) : key(mem, F[i]) < key(mem, F[i + 1])
         /\ set_size(mem, h) = Cardinality(given[s])

\* keys 2, 3, 1 went in, with a repeated key: iteration reads 1, 2, 3
C6_Witness ==
  /\ ~terminated /\ sets["A"].live
  /\ last.op = "insert" /\ ~last.ok
  /\ given["A"] = {1, 2, 3}
  /\ key(mem, llink(mem, sets["A"].head)) = 2
  /\ set_size(mem, sets["A"].head) = 3

\* C7: find(k) returns the node whose key is k, or end() when there is
\* none, and changes nothing; count(k) is 1 exactly when find(k) is not
\* end(), and 0 otherwise.
C7_FindCount ==
  [][/\ last'.op = "find" =>
          /\ last'.ret = NodeOf(last'.s, last'.k)
          /\ mem' = mem /\ sets' = sets
     /\ last'.op = "count" =>
          /\ last'.ret = (IF set_find(mem, sets[last'.s].head, last'.k)
                               # set_end(mem, sets[last'.s].head)
                          THEN 1 ELSE 0)
          /\ last'.ret = (IF last'.k \in TreeKeys(last'.s) THEN 1 ELSE 0)
          /\ mem' = mem /\ sets' = sets]_vars

\* find of a key held by a leaf of a three-node tree
C7_Witness ==
  /\ ~terminated /\ last.op = "find"
  /\ Len(Tree(last.s)) = 3
  /\ last.ret # sets[last.s].head
  /\ tag(mem, last.ret) = lbit + rbit

\* C8: inorder_predecessor inverts inorder_successor on the real nodes and
\* the head, and the traversal from rbegin() to rend() is the reverse of
\* the traversal from begin() to end().
C8_ReverseTraversal ==
  ~terminated =>
    \A s \in LiveSets :
      LET h == sets[s].head
          T == Tree(s)
          F == Forward(mem, set_begin(mem, h), set_end(mem, h), Cardinality(Pool))
          B == Backward(mem, set_end(mem, h), set_begin(mem, h), Cardinality(Pool))
      IN /\ Sound(T) /\ Sound(F) /\ Sound(B)
         /\ \A p \in Range(T) \cup {h} :
              /\ inorder_predecessor(mem, inorder_successor(mem, p)) = p
              /\ inorder_successor(mem, inorder_predecessor(mem, p)) = p
         /\ Range(F) = Range(T)
         /\ B = Reverse(F)

\* a three-node tree read backwards after its last insert
C8_Witness ==
  /\ ~terminated /\ sets["A"].live /\ last.op = "insert" /\ last.ok
  /\ LET h == sets["A"].head
         B == Backward(mem, set_end(mem, h), set_begin(mem, h), Cardinality(Pool))
     IN /\ Len(B) = 3
        /\ KeysOf(mem, B) = <<3, 2, 1>>
        /\ ~has_null_llink(tag(mem, B[1]))

\* C9: clear() returns the block of every real node to the pool exactly
\* once and not the head's block; afterwards empty() holds, size() is 0
\* and begin() equals end().
C9_ClearReturnsNodes ==
  [][last'.op = "clear" =>
       LET s == last'.s
           h == sets[s].head
           T == Tree(s)
           F0 == FreeList(mem, sets[s].data)
           F1 == FreeList(mem', sets[s].data)
       IN /\ ~terminated'
          /\ Sound(F1)
          /\ \A b \in Range(T) : Occurs(F0, b) = 0 /\ Occurs(F1, b) = 1
          /\ \A b \in Pool \ Range(T) : Occurs(F1, b) = Occurs(F0, b)
          /\ Occurs(F1, h) = 0
          /\ Len(F1) = Len(F0) + Len(T)
          /\ set_empty(mem', h)
          /\ set_size(mem', h) = 0
          /\ set_begin(mem', h) = set_end(mem', h)]_vars

\* a clear of three nodes: their three blocks are back on the free list
C9_Witness ==
  /\ ~terminated /\ last.op = "clear" /\ sets["A"].live
  /\ Len(FreeList(mem, Base)) = 3
  /\ \E b \in Range(FreeList(mem, Base)) : key(mem, b) = 3
  /\ \E b \in Range(FreeList(mem, Base)) : key(mem, b) = 2
  /\ \E b \in Range(FreeList(mem, Base)) : key(mem, b) = 1

\* the chain link_stack builds, top first, without block h
InitialChain(h) ==
  LET n == Cardinality(Pool)
      all == [i \in 1..n |-> Base + 2 * PtrSize + (n - i) * S]
  IN SelectSeq(all, LAMBDA b : b # h)

\* C10 as stated: after clear() the free list is the one link_stack built
\* (the head's block apart), with the same top.
C10_SameFreeList ==
  (~terminated /\ last.op = "clear") =>
    FreeList(mem, Base) = InitialChain(sets[last.s].head)

\* C10 amended: after clear() of the only set on the buffer the free list
\* holds every block but the head's, each once; the order may differ.
C10_SameFreeBlocks ==
  (~terminated /\ last.op = "clear") =>
    LET F == FreeList(mem, Base) IN
    /\ Sound(F)
    /\ Range(F) = Pool \ {sets[last.s].head}
    /\ Len(F) = Cardinality(Pool) - 1

\* after a clear the free list holds the initial blocks in another order
C10_Witness ==
  /\ ~terminated /\ last.op = "clear"
  /\ Range(FreeList(mem, Base)) = Pool \ {sets[last.s].head}
  /\ FreeList(mem, Base) # InitialChain(sets[last.s].head)

\* ------------------------------------- a set over the smallest buffer
\* the least length node_stack's constructor accepts: room for two blocks
MinLen == 3 * PtrSize + 2 * S

\* set::set(comp, alloc) by set s over the n bytes at d
ConstructOver(s, d, n) ==
  /\ ~terminated
  /\ ~sets[s].live
  /\ LET r == set_ctor(mem, d, n) IN
       /\ mem' = r.mem
       /\ sets' = [sets EXCEPT ![s] =
                     IF r.ok THEN [live |-> TRUE, head |-> r.head, data |-> d]
                     ELSE NoSet]
       /\ last' = Ret("construct", s, 0, r.head, r.ok)
  /\ given' = [given EXCEPT ![s] = {}]
  /\ UNCHANGED terminated

InitSmall ==
  /\ mem = [a \in Words(Base, MinLen) |-> 0]
  /\ sets = [s \in SetIds |-> NoSet]
  /\ last = Ret("none", "-", 0, NULL, FALSE)
  /\ given = [s \in SetIds |-> {}]
  /\ terminated = FALSE
  /\ steps = 0
  /\ stack = NoStack
  /\ main = NoMain
  /\ bst = NoBst

NextSmall ==
  \/ ConstructOver("A", Base, MinLen) /\ Tick
  \/ \E k \in Keys : Insert("A", k) /\ Tick
  \/ \E k \in Keys : Find("A", k) /\ Tick
  \/ \E k \in Keys : Count("A", k) /\ Tick
  \/ Clear("A") /\ Tick
  \/ Destroy("A") /\ Tick

SpecSmall == InitSmall /\ [][NextSmall]_vars

\* C11: over a buffer of MinLen bytes (sized for two blocks) the first two
\* inserts of distinct keys succeed and the insert of a third new key
\* returns (end(), false) and changes nothing.
C11_TwoBlockBuffer ==
  [][(last'.op = "insert" /\ last'.k \notin TreeKeys(last'.s)) =>
       LET s == last'.s
           h == sets[s].head
       IN IF Cardinality(TreeKeys(s)) < 2
            THEN /\ ~terminated'
                 /\ last'.ok
                 /\ last'.k \in Range(KeysOf(mem', TreeInorder(mem', h)))
            ELSE /\ ~terminated'
                 /\ ~last'.ok
                 /\ last'.ret = h
                 /\ mem' = mem]_vars

\* C12: an insert of a new key that finds the pool empty fails and leaves
\* the set readable with its earlier contents (so every later insert of a
\* new key fails as well, the pool being still empty); a clear() gives the
\* pool back as many free blocks as it had after construction.
C12_ExhaustionRecovers ==
  [][/\ (/\ last'.op = "insert"
         /\ last'.k \notin TreeKeys(last'.s)
         /\ FreeList(mem, sets[last'.s].data) = <<>>)
          => (/\ ~terminated'
              /\ ~last'.ok
              /\ KeysOf(mem', TreeInorder(mem', sets[last'.s].head))
                   = KeysOf(mem, Tree(last'.s))
              /\ FreeList(mem', sets[last'.s].data) = <<>>)
     /\ last'.op = "clear"
          => Len(FreeList(mem', sets[last'.s].data))
               = Cardinality(Blocks(Base, MinLen)) - 1]_vars

\* ------------------------------------------ two sets, one or two buffers
Base2 == 2000         \* address of the first byte of a second buffer
BigLen == BufLen + 2 * S   \* the first buffer, with room for a copy
Addrs2 == Words(Base2, BufLen)
Pool2 == Blocks(Base2, BufLen)
AllPool == Blocks(Base, BigLen) \cup Pool2

InitCopy ==
  /\ mem = [a \in Words(Base, BigLen) \cup Addrs2 |-> 0]
  /\ sets = [s \in SetIds |-> NoSet]
  /\ last = Ret("none", "-", 0, NULL, FALSE)
  /\ given = [s \in SetIds |-> {}]
  /\ terminated = FALSE
  /\ steps = 0
  /\ stack = NoStack
  /\ main = NoMain
  /\ bst = NoBst

\* A is built over the first buffer, B over the first or the second one;
\* copies go from either set to the other.
NextCopy ==
  \/ ConstructOver("A", Base, BigLen) /\ TickShared
  \/ ConstructOver("B", Base, BigLen) /\ TickShared
  \/ ConstructOver("B", Base2, BufLen) /\ TickShared
  \/ \E s \in SetIds, k \in SharedKeys : Insert(s, k) /\ TickShared
  \/ \E s \in SetIds : Clear(s) /\ TickShared
  \/ \E s \in SetIds : Destroy(s) /\ TickShared
  \/ \E s \in SetIds : \E src \in SetIds \ {s} : CopyConstruct(s, src) /\ TickShared
  \/ \E s \in SetIds : \E src \in SetIds \ {s} : Assign(s, src) /\ TickShared

SpecCopy == InitCopy /\ [][NextCopy]_vars

\* the chain of free blocks of the pool at d, blocks of either buffer
RECURSIVE FreeWalkIn(_, _, _)
FreeWalkIn(m, q, fuel) ==
  IF q = NULL THEN <<>>
  ELSE IF fuel = 0 \/ q \notin AllPool THEN <<Bad>>
  ELSE <<q>> \o FreeWalkIn(m, m[q], fuel - 1)
FreeIn(m, d) == FreeWalkIn(m, m[d + PtrSize], Cardinality(AllPool))

\* the nodes of the subtree at p in inorder, nodes of either buffer
RECURSIVE SubNodes(_, _, _)
SubNodes(m, p, fuel) ==
  IF fuel = 0 \/ p \notin AllPool THEN <<Bad>>
  ELSE (IF has_null_llink(tag(m, p)) THEN <<>> ELSE SubNodes(m, llink(m, p), fuel - 1))
       \o <<p>> \o
       (IF has_null_rlink(tag(m, p)) THEN <<>> ELSE SubNodes(m, rlink(m, p), fuel - 1))
TreeNodes(m, h) ==
  IF has_null_llink(tag(m, h)) THEN <<>>
  ELSE SubNodes(m, llink(m, h), Cardinality(AllPool))

\* the subtrees at p and q have the same tags and keys node for node
RECURSIVE SameShape(_, _, _, _)
SameShape(m, p, q, fuel) ==
  /\ fuel > 0 /\ p \in AllPool /\ q \in AllPool
  /\ tag(m, p) = tag(m, q)
  /\ key(m, p) = key(m, q)
  /\ ~has_null_llink(tag(m, p)) => SameShape(m, llink(m, p), llink(m, q), fuel - 1)
  /\ ~has_null_rlink(tag(m, p)) => SameShape(m, rlink(m, p), rlink(m, q), fuel - 1)

\* the trees under heads sh and dh are equal in keys and in shape
SameTree(m, sh, dh) ==
  /\ tag(m, sh) = tag(m, dh)
  /\ KeysOf(m, TreeNodes(m, sh)) = KeysOf(m, TreeNodes(m, dh))
  /\ ~has_null_llink(tag(m, sh)) =>
       SameShape(m, llink(m, sh), llink(m, dh), Cardinality(AllPool))

\* C13: when the destination's pool has enough free blocks, copy
\* construction and copy assignment leave the destination with the source's
\* inorder keys and the source's shape node for node; copy assignment
\* first returns the destination's old nodes to its pool, and
\* self-assignment changes nothing.
C13_CopyShape ==
  [][/\ \A s \in SetIds : \A src \in SetIds \ {s} :
          (/\ CopyConstruct(s, src)
           /\ Len(FreeIn(mem, sets[src].data))
                >= 1 + Len(TreeNodes(mem, sets[src].head)))
            => (/\ ~terminated'
                /\ SameTree(mem', sets[src].head, sets'[s].head))
     /\ \A s \in SetIds : \A src \in SetIds \ {s} :
          (/\ Assign(s, src)
           /\ Len(FreeIn(mem, sets[s].data)) + Len(TreeNodes(mem, sets[s].head))
                >= Len(TreeNodes(mem, sets[src].head)))
            => (/\ ~terminated'
                /\ SameTree(mem', sets[src].head, sets[s].head)
                /\ \A b \in Range(TreeNodes(mem, sets[s].head)) :
                     \/ b \in Range(FreeIn(mem', sets[s].data))
                     \/ b \in Range(TreeNodes(mem', sets[s].head)))
     /\ \A s \in SetIds : Assign(s, s) => mem' = mem]_vars

\* the head and the nodes of set t, with the words they hold
OwnedBy(m, t) == Range(TreeNodes(m, sets[t].head)) \cup {sets[t].head}

\* C14: a clear or an insert on one set leaves the other live set (the
\* copy, or the set it was copied from) with the same head, the same nodes
\* in the same order and the same words in each of them, whether the two
\* sets use one buffer or two.
C14_CopyIndependent ==
  [][\A t \in SetIds :
       (/\ last'.op \in {"clear", "insert"}
        /\ last'.s # t
        /\ sets[t].live)
         => (/\ sets'[t] = sets[t]
             /\ TreeNodes(mem', sets[t].head) = TreeNodes(mem, sets[t].head)
             /\ \A n \in OwnedBy(mem, t) :
                  /\ n \in AllPool
                  /\ \A off \in {OffL, OffR, OffTag, OffKey} :
                       mem'[n + off] = mem[n + off])]_vars

\* B over the second buffer was assigned from A = {1, 2}, so B's nodes lie
\* in the first buffer; then A was cleared and B still reads 1, 2
C14_Witness ==
  /\ ~terminated /\ last.op = "clear" /\ last.s = "A"
  /\ sets["B"].live /\ sets["B"].data = Base2
  /\ TreeNodes(mem, sets["A"].head) = <<>>
  /\ KeysOf(mem, TreeNodes(mem, sets["B"].head)) = <<1, 2>>
  /\ \A n \in Range(TreeNodes(mem, sets["B"].head)) : n \in Blocks(Base, BigLen)

\* the subtree at q (destination) is a part of the subtree at p (source):
\* q carries p's key and each child q has stands where p has one
RECURSIVE PrefixOf(_, _, _, _)
PrefixOf(m, p, q, fuel) ==
  /\ fuel > 0 /\ p \in AllPool /\ q \in AllPool
  /\ key(m, q) = key(m, p)
  /\ ~has_null_llink(tag(m, q)) =>
       /\ ~has_null_llink(tag(m, p))
       /\ PrefixOf(m, llink(m, p), llink(m, q), fuel - 1)
  /\ ~has_null_rlink(tag(m, q)) =>
       /\ ~has_null_rlink(tag(m, p))
       /\ PrefixOf(m, rlink(m, p), rlink(m, q), fuel - 1)

\* C15: a copy that runs out of blocks halts and returns; the destination
\* is then a well-formed tree holding a part of the source: each of its
\* nodes carries the key of the source node it stands for and its inorder
\* keys strictly increase.
C15_CopyHalts ==
  [][\A s \in SetIds : \A src \in SetIds \ {s} :
       (CopyConstruct(s, src) \/ Assign(s, src))
         => /\ ~terminated'
            /\ sets'[s].live =>
                 LET dh == sets'[s].head
                     T == TreeNodes(mem', dh)
                 IN /\ \A i \in 1..Len(T) : T[i] \in AllPool
                    /\ \A i \in 1..(Len(T) - 1) :
                         key(mem', T[i]) < key(mem', T[i + 1])
                    /\ ~has_null_llink(tag(mem', dh)) =>
                         PrefixOf(mem', llink(mem', sets[src].head),
                                  llink(mem', dh), Cardinality(AllPool))]_vars

\* ------------------------------------------- node_stack used directly
MaxWords == 14        \* the longest buffer, in pointer-sized words
MaxStackOps == 6      \* operations in a run of a node_stack

\* block sizes node_stack is instantiated with: the set's node, a node of
\* half that size (a pointer and a value) and the least size the
\* allocator pools, sizeof (char*)
OtherS == S \div 2
Sizes == {S, OtherS, PtrSize}

\* buffer lengths, from two header words and one block of S bytes upwards
Lens == {PtrSize * w : w \in (2 + S \div PtrSize)..MaxWords}

\* the length of the buffer whose words m holds
BufSize(m) == PtrSize * Cardinality(DOMAIN m)

InitStack ==
  /\ \E n \in Lens : mem = [a \in Words(Base, n) |-> 0]
  /\ sets = [s \in SetIds |-> NoSet]
  /\ last = Ret("none", "-", 0, NULL, FALSE)
  /\ given = [s \in SetIds |-> {}]
  /\ terminated = FALSE
  /\ steps = 0
  /\ stack = NoStack
  /\ main = NoMain
  /\ bst = NoBst

\* node_stack<sz> constructed over the whole buffer (the allocator's
\* rebinding constructor)
StackInit(sz) ==
  /\ ~terminated
  /\ LET r == node_stack_ctor(mem, Base, BufSize(mem), sz) IN
       /\ mem' = r.mem
       /\ last' = Ret("init", "-", sz, NULL, r.ok)
       /\ stack' = IF r.ok /\ mem[Base] = 0 THEN [S |-> sz, held |-> {}] ELSE stack
  /\ UNCHANGED <<sets, given, terminated>>

\* pop through a constructed node_stack.  When the top word holds a value
\* that is no address of the buffer, pop copies a word from that address:
\* the process dies, or the top word receives whatever was read.
StackPop ==
  /\ ~terminated
  /\ stack.S # 0
  /\ LET q == mem[Base + PtrSize] IN
       IF q = NULL \/ q \in DOMAIN mem
         THEN LET r == pop(mem, Base) IN
                /\ mem' = r.mem
                /\ last' = Ret("pop", "-", 0, r.p, r.p # NULL)
                /\ stack' = [stack EXCEPT
                               !.held = IF r.p = NULL THEN @ ELSE @ \cup {r.p}]
                /\ UNCHANGED terminated
         ELSE /\ last' = Ret("pop", "-", 0, q, FALSE)
              /\ UNCHANGED stack
              /\ \/ terminated' = TRUE /\ mem' = mem
                 \/ /\ terminated' = FALSE
                    /\ \E v \in {NULL, Base + 2 * PtrSize, stack.S} :
                         mem' = [mem EXCEPT ![Base + PtrSize] = v]
  /\ UNCHANGED <<sets, given>>

\* push of a block that pop handed out, or of a null pointer
StackPush(p) ==
  /\ ~terminated
  /\ stack.S # 0
  /\ p \in stack.held \cup {NULL}
  /\ mem' = push(mem, Base, p)
  /\ last' = Ret("push", "-", 0, p, TRUE)
  /\ stack' = [stack EXCEPT !.held = @ \ {p}]
  /\ UNCHANGED <<sets, given, terminated>>

\* the holder of block p stores v in the word at offset off of its node
StackWrite(p, off, v) ==
  /\ ~terminated
  /\ p \in stack.held
  /\ off < stack.S
  /\ mem' = [mem EXCEPT ![p + off] = v]
  /\ last' = Ret("write", "-", off, p, TRUE)
  /\ UNCHANGED <<sets, given, terminated, stack>>

TickStack ==
  steps < MaxStackOps /\ steps' = steps + 1 /\ UNCHANGED <<main, bst>>

NextStack ==
  \/ \E sz \in Sizes : StackInit(sz) /\ TickStack
  \/ StackPop /\ TickStack
  \/ \E p \in stack.held \cup {NULL} : StackPush(p) /\ TickStack
  \/ \E p \in stack.held, off \in {OffL, OffR} : \E v \in {p, OtherS} :
       StackWrite(p, off, v) /\ TickStack

SpecStack == InitStack /\ [][NextStack]_vars

C17_RecordedSizeKept ==
  [][/\ stack'.S # 0 => mem'[Base + 3 * PtrSize] = stack'.S
     /\ \A sz \in Sizes :
          (StackInit(sz) /\ stack.S # 0) => (last'.ok <=> sz = stack.S)]_vars

\* C18: only the init that finds the link-count zero threads the free
\* list; a later init with the size of the first link adds one to the
\* link-count and leaves every other word of the buffer (free-list top,
\* links of free blocks, blocks handed out) as it was.
C18_LinkedOnce ==
  [][\A sz \in Sizes :
       (StackInit(sz) /\ mem[Base] # 0) =>
         /\ \A a \in DOMAIN mem \ {Base} : mem'[a] = mem[a]
         /\ sz = stack.S => mem'[Base] = mem[Base] + 1]_vars

\* the chain of blocks from q through the first word of each
RECURSIVE ChainFrom(_, _, _)
ChainFrom(m, q, fuel) ==
  IF q = NULL THEN <<>>
  ELSE IF fuel = 0 \/ q \notin DOMAIN m THEN <<Bad>>
  ELSE <<q>> \o ChainFrom(m, m[q], fuel - 1)

\* C19: the first init over a buffer of n bytes leaves floor((n -
\* 3*sizeof(pointer)) / S) blocks on the free list, and each of them lies
\* inside the buffer behind the three header words.
C19_BlockCount ==
  [][\A sz \in Sizes :
       (StackInit(sz) /\ mem[Base] = 0 /\ last'.ok) =>
         LET n == BufSize(mem)
             F == ChainFrom(mem', mem'[Base + PtrSize], Cardinality(DOMAIN mem))
         IN /\ Len(F) = (n - 3 * PtrSize) \div sz
            /\ \A i \in 1..Len(F) :
                 /\ Base + 3 * PtrSize <= F[i]
                 /\ F[i] + sz <= Base + n]_vars

\* ------------------------------------------------------ the head sentinel
\* std::reverse_iterator compares by its base: rbegin() holds end(),
\* rend() holds begin()
set_rbegin(m, h) == set_end(m, h)
set_rend(m, h) == set_begin(m, h)

\* the node of the sequence T that is no child of a node of T
RootOf(m, T) ==
  {n \in Range(T) :
     \A p \in Range(T) :
       /\ ~(~has_null_llink(tag(m, p)) /\ llink(m, p) = n)
       /\ ~(~has_null_rlink(tag(m, p)) /\ rlink(m, p) = n)}

\* C20: in every state of a live set head.rlink is the head itself, the
\* head's LBIT is set exactly when the tree has no real node, head.llink is
\* the root (the head itself when the tree is empty); empty() holds exactly
\* when the head's LBIT is set, and on an empty tree begin() = end() and
\* rbegin() = rend().
C20_HeadSentinel ==
  ~terminated =>
    \A s \in LiveSets :
      LET h == sets[s].head
          T == Tree(s)
          F == Forward(mem, set_begin(mem, h), set_end(mem, h), Cardinality(Pool))
      IN /\ rlink(mem, h) = h
         /\ Sound(T) /\ Sound(F)
         /\ has_null_llink(tag(mem, h)) <=> (F = <<>>)
         /\ Len(T) = Len(F)
         /\ (F = <<>>) => llink(mem, h) = h
         /\ (F # <<>>) => RootOf(mem, F) = {llink(mem, h)}
         /\ set_empty(mem, h) <=> has_null_llink(tag(mem, h))
         /\ has_null_llink(tag(mem, h)) =>
              /\ set_begin(mem, h) = set_end(mem, h)
              /\ set_rbegin(mem, h) = set_rend(mem, h)

\* a set emptied by clear() after it held the keys 2 and 3
C20_Witness ==
  /\ ~terminated /\ sets["A"].live
  /\ last.op = "clear"
  /\ set_empty(mem, sets["A"].head)
  /\ \E b \in Pool : key(mem, b) = 2
  /\ \E b \in Pool : key(mem, b) = 3

\* ------------------------------------------- the sorting test's main()
MaxN == 4             \* the longest vector the test sorts
MaxVal == 1           \* the bounds A and B lie in -MaxVal..MaxVal

\* std::is_sorted over the whole vector
is_sorted(d) == \A i \in 1..(Len(d) - 1) : ~(d[i + 1] < d[i])

\* rt::make_rand_data<int>(N, A, B): any N values of [A, B]
make_rand_data(N, A, B) == [1..N -> A..B]

\* the output pass: from the last element to the first, each element goes
\* to the slot its key's running count names and the count goes down by one
RECURSIVE place(_, _, _, _)
place(d, cnt, out, j) ==
  IF j = 0 THEN out
  ELSE LET v == d[j] IN
       place(d, [cnt EXCEPT ![v] = @ - 1], [out EXCEPT ![cnt[v]] = v], j - 1)

\* the counts of each key, accumulated so that acc[v] is the number of
\* elements with key <= v
accumulate(d, N, A, B) ==
  LET count == [v \in A..B |-> Cardinality({i \in 1..N : d[i] = v})]
      acc[v \in A..B] == IF v = A THEN count[A] ELSE acc[v - 1] + count[v]
  IN acc

\* the counts without the accumulation pass
dist_counting_sort_no_accumulate(d, N, A, B) ==
  LET count == [v \in A..B |-> Cardinality({i \in 1..N : d[i] = v})]
  IN IF N = 0 THEN d
     ELSE LET out == place(d, count, d, N)
          IN [j \in 1..N |-> out[j]]

\* rt::dist_counting_sort(begin, N, A, B) on the vector d; the result
\* replaces d[1..N]
dist_counting_sort(d, N, A, B) ==
  IF N = 0 THEN d
  ELSE LET out == place(d, accumulate(d, N, A, B), d, N)
       IN [j \in 1..N |-> out[j]]

InitSort ==
  /\ mem = [a \in Addrs |-> 0]
  /\ sets = [s \in SetIds |-> NoSet]
  /\ last = Ret("none", "-", 0, NULL, FALSE)
  /\ given = [s \in SetIds |-> {}]
  /\ terminated = FALSE
  /\ steps = 0
  /\ stack = NoStack
  /\ \E N \in 0..MaxN : \E A \in (0 - MaxVal)..MaxVal : \E B \in A..MaxVal :
       main = [NoMain EXCEPT !.pc = "start", !.N = N, !.A = A, !.B = B]
  /\ bst = NoBst

\* std::vector<int> data = rt::make_rand_data<int>(N, A, B);
MainFill ==
  /\ main.pc = "start"
  /\ \E d \in make_rand_data(main.N, main.A, main.B) :
       main' = [main EXCEPT !.pc = "filled", !.input = d, !.data = d]

\* rt::dist_counting_sort(std::begin(data), N, A, B);
MainSort ==
  /\ main.pc = "filled"
  /\ main' = [main EXCEPT !.pc = "sorted",
                          !.data = dist_counting_sort(main.data, main.N, main.A, main.B)]

\* return std::is_sorted(std::begin(data), std::end(data)) ? 0 : 1;
MainReturn ==
  /\ main.pc = "sorted"
  /\ main' = [main EXCEPT !.pc = "done",
                          !.ret = IF is_sorted(main.data) THEN 0 ELSE 1]

NextSort ==
  \/ MainFill /\ UNCHANGED <<mem, sets, last, given, terminated, steps, stack, bst>>
  \/ MainSort /\ UNCHANGED <<mem, sets, last, given, terminated, steps, stack, bst>>
  \/ MainReturn /\ UNCHANGED <<mem, sets, last, given, terminated, steps, stack, bst>>

SpecSort == InitSort /\ [][NextSort]_vars

RECURSIVE Pops(_, _, _)
Pops(m, d, fuel) ==
  LET r == pop(m, d) IN
  IF r.p = NULL THEN <<>>
  ELSE IF fuel = 0 \/ r.p \notin DOMAIN m THEN <<Bad>>
  ELSE <<r.p>> \o Pops(r.mem, d, fuel - 1)

\* C22: right after the first init with block size sz >= sizeof(pointer)
\* over an accepted length, the free list is a null-terminated chain over
\* all the blocks link_stack laid out: the top word holds the
\* highest-address block, each block's first word holds the address of the
\* block just below it, the bottom block's first word is null, and
\* successive pops return every block exactly once and then null.
C22_FirstChain ==
  [][(last'.op = "init" /\ last'.ok /\ mem[Base] = 0) =>
       LET sz == last'.k
           first == Base + 2 * PtrSize
           cnt == (BufSize(mem) - 2 * PtrSize) \div sz
           all == [i \in 1..cnt |-> first + (cnt - i) * sz]
       IN /\ mem'[Base + PtrSize] = first + (cnt - 1) * sz
          /\ \A i \in 1..(cnt - 1) : mem'[first + i * sz] = first + (i - 1) * sz
          /\ mem'[first] = NULL
          /\ ChainFrom(mem', mem'[Base + PtrSize], Cardinality(DOMAIN mem)) = all
          /\ Pops(mem', Base, Cardinality(DOMAIN mem)) = all]_vars

\* ------------------------------------------------------ the LIFO stack
\* the blocks link_stack laid out for the linked stack's block size
StackBlocks ==
  {Base + 2 * PtrSize + i * stack.S :
     i \in 0..(((BufSize(mem) - 2 * PtrSize) \div stack.S) - 1)}

\* the free list of the stack, top first
StackList(m) == ChainFrom(m, m[Base + PtrSize], Cardinality(DOMAIN m))

\* C23: node_stack refines a LIFO stack of block addresses.  The free
\* list is a sequence of distinct blocks, and every block is on it or
\* handed out; pop returns the top of the list and leaves the rest, pop on
\* the empty list returns null and changes nothing, push(null) changes
\* nothing, push(p) puts p on top, and push(p) followed by pop returns p
\* with the list as it was before the push.
C23_Lifo ==
  [][stack'.S # 0 =>
       LET F == StackList(mem)
           G == StackList(mem')
       IN /\ Bad \notin Range(G)
          /\ \A i, j \in 1..Len(G) : i # j => G[i] # G[j]
          /\ Range(G) \cap stack'.held = {}
          /\ Range(G) \cup stack'.held = StackBlocks'
          /\ last'.op = "pop" =>
               IF F = <<>> THEN last'.ret = NULL /\ mem' = mem
               ELSE last'.ret = Head(F) /\ G = Tail(F)
          /\ last'.op = "push" =>
               IF last'.ret = NULL THEN mem' = mem
               ELSE /\ G = <<last'.ret>> \o F
                    /\ LET r == pop(mem', Base) IN
                         /\ r.p = last'.ret
                         /\ StackList(r.mem) = F
                         /\ r.mem[Base + PtrSize] = mem[Base + PtrSize]]_vars

\* ------------------------------------------- the pool-backed prototype bst
MaxReserve == 3       \* the greatest reserve_n a prototype is built with

\* the object's head member and the elements of its pool vector
HeadAddr == Base
PoolAt(i) == Base + S * (i + 1)
PoolSize(reserve_n) == IF reserve_n = 0 THEN 1 ELSE reserve_n
PoolNodes(m) == {PoolAt(i) : i \in 0..((Cardinality(DOMAIN m) * PtrSize) \div S - 2)}

\* bitwise or and and of two tag values
BitOr(a, b) ==
  (IF a % 2 = 1 \/ b % 2 = 1 THEN 1 ELSE 0)
  + 2 * (IF (a \div 2) % 2 = 1 \/ (b \div 2) % 2 = 1 THEN 1 ELSE 0)
BitAnd(a, b) ==
  (IF a % 2 = 1 /\ b % 2 = 1 THEN 1 ELSE 0)
  + 2 * (IF (a \div 2) % 2 = 1 /\ (b \div 2) % 2 = 1 THEN 1 ELSE 0)

\* bst::bst(reserve_n): the head points at itself with the left bit set
\* and the pool's nodes are chained through llink, avail at the last one
bst_ctor(reserve_n) ==
  LET n == PoolSize(reserve_n) IN
  [mem |-> [a \in Words(Base, S * (n + 1)) |->
              IF a = HeadAddr + OffL \/ a = HeadAddr + OffR THEN HeadAddr
              ELSE IF a = HeadAddr + OffTag THEN BitOr(0, 2)
              ELSE IF \E i \in 1..(n - 1) : a = PoolAt(i) + OffL THEN a - S
              ELSE 0],
   avail |-> PoolAt(n - 1)]

\* a loop that follows llink (side 2) or rlink (side 1) from q while the
\* tag bit of that side is clear; Bad when it has taken more steps than
\* there are nodes, that is when it never ends
RECURSIVE walk(_, _, _, _)
walk(m, q, side, fuel) ==
  IF BitAnd(tag(m, q), side) # 0 THEN q
  ELSE IF fuel = 0 THEN Bad
  ELSE walk(m, IF side = 2 THEN llink(m, q) ELSE rlink(m, q), side, fuel - 1)

bst_begin(m) == walk(m, llink(m, HeadAddr), 2, Cardinality(DOMAIN m))
bst_rbegin(m) == walk(m, llink(m, HeadAddr), 1, Cardinality(DOMAIN m))
bst_end == HeadAddr
bst_rend == HeadAddr

\* insert_node_right that takes the node although avail is null
insert_node_right_no_check(m, av, p, k) ==
  LET q == IF av = NULL THEN PoolAt(0) ELSE av
      m1 == [m EXCEPT ![q + OffKey] = k, ![q + OffR] = rlink(m, p),
                      ![q + OffL] = p, ![q + OffTag] = BitOr(BitAnd(tag(m, p), 1), 2)]
  IN [mem |-> [m1 EXCEPT ![p + OffR] = q, ![p + OffTag] = BitAnd(tag(m, p), 2)],
      avail |-> IF av = NULL THEN NULL ELSE llink(m, av), ret |-> q, ok |-> TRUE]

\* bst::insert_node_right(p, key)
insert_node_right(m, av, p, k) ==
  IF av = NULL
    THEN [mem |-> m, avail |-> av, ret |-> HeadAddr, ok |-> FALSE]
    ELSE LET q == av
             m1 == [m EXCEPT ![q + OffKey] = k]
             m2 == [m1 EXCEPT ![q + OffR] = rlink(m1, p)]
             m3 == [m2 EXCEPT ![q + OffTag] =
                      BitOr(BitAnd(tag(m2, q), 2), BitAnd(tag(m2, p), 1))]
             m4 == [m3 EXCEPT ![p + OffR] = q]
             m5 == [m4 EXCEPT ![p + OffTag] = BitAnd(tag(m4, p), 2)]
             m6 == [m5 EXCEPT ![q + OffL] = p]
             m7 == [m6 EXCEPT ![q + OffTag] = BitOr(tag(m6, q), 2)]
             m8 == IF BitAnd(tag(m7, q), 1) = 0
                     THEN [m7 EXCEPT ![inorder_successor(m7, q) + OffL] = q]
                     ELSE m7
         IN [mem |-> m8, avail |-> llink(m, av), ret |-> q, ok |-> TRUE]

\* insert_node_left whose fix-up runs whatever the new node's tag
insert_node_left_always_fixes(m, av, p, k) ==
  IF av = NULL
    THEN [mem |-> m, avail |-> av, ret |-> HeadAddr, ok |-> FALSE]
    ELSE LET q == av
             m1 == [m EXCEPT ![q + OffKey] = k, ![q + OffL] = llink(m, p),
                             ![q + OffR] = p,
                             ![q + OffTag] = BitOr(BitAnd(tag(m, p), 2), 1)]
             m2 == [m1 EXCEPT ![p + OffL] = q, ![p + OffTag] = BitAnd(tag(m, p), 1)]
         IN [mem |-> [m2 EXCEPT ![llink(m2, q) + OffR] = q],
             avail |-> llink(m, av), ret |-> q, ok |-> TRUE]

\* bst::insert_node_left(p, key)
insert_node_left(m, av, p, k) ==
  IF av = NULL
    THEN [mem |-> m, avail |-> av, ret |-> HeadAddr, ok |-> FALSE]
    ELSE LET q == av
             m1 == [m EXCEPT ![q + OffKey] = k]
             m2 == [m1 EXCEPT ![q + OffL] = llink(m1, p)]
             m3 == [m2 EXCEPT ![q + OffTag] =
                      BitOr(BitAnd(tag(m2, q), 1), BitAnd(tag(m2, p), 2))]
             m4 == [m3 EXCEPT ![p + OffL] = q]
             m5 == [m4 EXCEPT ![p + OffTag] = BitAnd(tag(m4, p), 1)]
             m6 == [m5 EXCEPT ![q + OffR] = p]
             m7 == [m6 EXCEPT ![q + OffTag] = BitOr(tag(m6, q), 1)]
             m8 == IF BitAnd(tag(m7, q), 2) = 0
                     THEN [m7 EXCEPT ![inorder_predecessor(m7, q) + OffR] = q]
                     ELSE m7
         IN [mem |-> m8, avail |-> llink(m, av), ret |-> q, ok |-> TRUE]

\* the for (;;) loop of bst::insert
RECURSIVE bst_insert_loop(_, _, _, _)
bst_insert_loop(m, av, p, k) ==
  IF k < key(m, p)
    THEN IF BitAnd(tag(m, p), 2) = 0
           THEN bst_insert_loop(m, av, llink(m, p), k)
           ELSE insert_node_left(m, av, p, k)
    ELSE IF k > key(m, p)
      THEN IF BitAnd(tag(m, p), 1) = 0
             THEN bst_insert_loop(m, av, rlink(m, p), k)
             ELSE insert_node_right(m, av, p, k)
      ELSE [mem |-> m, avail |-> av, ret |-> p, ok |-> FALSE]

\* bst::insert(key)
bst_insert(m, av, k) ==
  IF BitAnd(tag(m, HeadAddr), 2) # 0
    THEN insert_node_left(m, av, HeadAddr, k)
    ELSE bst_insert_loop(m, av, llink(m, HeadAddr), k)

InitProto ==
  /\ \E n \in 0..MaxReserve :
       /\ mem = bst_ctor(n).mem
       /\ bst = [avail |-> bst_ctor(n).avail, reserve_n |-> n, hung |-> FALSE]
  /\ sets = [s \in SetIds |-> NoSet]
  /\ last = Ret("none", "-", 0, NULL, FALSE)
  /\ given = [s \in SetIds |-> {}]
  /\ terminated = FALSE
  /\ steps = 0
  /\ stack = NoStack
  /\ main = NoMain

ProtoInsert(k) ==
  /\ ~bst.hung
  /\ LET r == bst_insert(mem, bst.avail, k) IN
       /\ mem' = r.mem
       /\ bst' = [bst EXCEPT !.avail = r.avail]
       /\ last' = Ret("insert", "-", k, r.ret, r.ok)
  /\ UNCHANGED <<sets, given, terminated, steps, stack, main>>

\* a call that never returns leaves hung set
ProtoBegin ==
  /\ ~bst.hung
  /\ LET q == bst_begin(mem) IN
       /\ last' = Ret("begin", "-", 0, q, q # Bad)
       /\ bst' = [bst EXCEPT !.hung = (q = Bad)]
  /\ UNCHANGED <<mem, sets, given, terminated, steps, stack, main>>

ProtoRbegin ==
  /\ ~bst.hung
  /\ LET q == bst_rbegin(mem) IN
       /\ last' = Ret("rbegin", "-", 0, q, q # Bad)
       /\ bst' = [bst EXCEPT !.hung = (q = Bad)]
  /\ UNCHANGED <<mem, sets, given, terminated, steps, stack, main>>

NextProto ==
  \/ \E k \in Keys : ProtoInsert(k)
  \/ ProtoBegin
  \/ ProtoRbegin

SpecProto == InitProto /\ [][NextProto]_vars

\* ---------------------------------------------------- the frame of insert
\* the four words of node n are the same in m and m2
SameNode(m, m2, n) ==
  \A off \in {OffL, OffR, OffTag, OffKey} : m2[n + off] = m[n + off]

\* between m and m2 the node q, not among the nodes Old, was attached with
\* key k under one node p of Old: on one side p's link became q and its
\* tag bit was cleared, q took p's former link and tag bit of that side
\* and its other link is a thread to p; nothing else of Old changed
Attached(m, m2, Old, q, k) ==
  /\ q \notin Old
  /\ key(m2, q) = k
  /\ \E p \in Old : \E side \in {lbit, rbit} :
       LET off == IF side = lbit THEN OffL ELSE OffR
           other == IF side = lbit THEN OffR ELSE OffL
       IN /\ m2[p + off] = q
          /\ BitAnd(tag(m2, p), side) = 0
          /\ BitAnd(tag(m2, p), 3 - side) = BitAnd(tag(m, p), 3 - side)
          /\ m2[p + other] = m[p + other]
          /\ key(m2, p) = key(m, p)
          /\ m2[q + off] = m[p + off]
          /\ BitAnd(tag(m2, q), side) = BitAnd(tag(m, p), side)
          /\ m2[q + other] = p
          /\ BitAnd(tag(m2, q), 3 - side) # 0
          /\ \A n \in Old \ {p} : SameNode(m, m2, n)

\* the head and the pool nodes of the prototype that are not on avail
ProtoNodes(m, av) ==
  {HeadAddr} \cup (PoolNodes(m) \ Range(ChainFrom(m, av, Cardinality(DOMAIN m))))

\* C24: a successful insert of a new key changes exactly one previously
\* existing node, the parent: its link on the attached side now points to
\* the new node and its tag bit for that side is cleared; no other
\* existing node's links, tag bits or key change, the new node inherits
\* the parent's former link and tag bit on that side, and its other link
\* is a thread to the parent.
C24_InsertFrame ==
  [][(last'.op = "insert" /\ last'.ok) =>
       Attached(mem, mem', ProtoNodes(mem, bst.avail), last'.ret, last'.k)]_vars

\* the key 2 was attached between the keys 1 and 3, under a node that is
\* neither the head nor the root
C24_Witness ==
  /\ last.op = "insert" /\ last.ok /\ last.k = 2
  /\ \E a, b \in PoolNodes(mem) :
       /\ key(mem, a) = 1 /\ key(mem, b) = 3
       /\ {a, b} \cap Range(ChainFrom(mem, bst.avail, Cardinality(DOMAIN mem))) = {}
       /\ llink(mem, HeadAddr) # last.ret
       /\ \E p \in {a, b} : llink(mem, HeadAddr) # p /\ last.ret \in {llink(mem, p), rlink(mem, p)}

\* --------------------------------------------------- what clear() touches
\* the nodes whose tag and links the loop of inorder_successor reads from q
RECURSIVE left_path(_, _)
left_path(m, q) ==
  <<q>> \o (IF has_null_llink(tag(m, q)) THEN <<>> ELSE left_path(m, llink(m, q)))

\* the nodes whose tag and links inorder_successor(p) reads
succ_reads(m, p) ==
  <<p>> \o (IF has_null_rlink(tag(m, p)) THEN <<>> ELSE left_path(m, rlink(m, p)))

Event(e, n) == [ev |-> e, n |-> n]
ReadEvents(R) == [i \in 1..Len(R) |-> Event("read", R[i])]

\* clear loop that returns the node to the pool before it looks for the
\* node's successor
RECURSIVE clear_run_deallocate_first(_, _, _, _)
clear_run_deallocate_first(m, d, h, p) ==
  LET m1 == IF p # h THEN deallocate(m, d, p) ELSE m
      q == inorder_successor(m1, p)
      ev == (IF p # h THEN <<Event("destroy", q), Event("deallocate", p)>> ELSE <<>>)
            \o ReadEvents(succ_reads(m1, p))
  IN IF q = h THEN [mem |-> m1, ev |-> ev]
     ELSE LET r == clear_run_deallocate_first(m1, d, h, q)
          IN [mem |-> r.mem, ev |-> ev \o r.ev]

\* the for (;;) loop of set::clear, entered with p, with what it does in
\* order: the nodes inorder_successor reads, the key it destroys, the node
\* it deallocates
RECURSIVE clear_run(_, _, _, _)
clear_run(m, d, h, p) ==
  LET q == inorder_successor(m, p)
      ev == ReadEvents(succ_reads(m, p))
            \o (IF p # h THEN <<Event("destroy", q), Event("deallocate", p)>> ELSE <<>>)
      m1 == IF p # h THEN deallocate(m, d, p) ELSE m
  IN IF q = h THEN [mem |-> m1, ev |-> ev]
     ELSE LET r == clear_run(m1, d, h, q)
          IN [mem |-> r.mem, ev |-> ev \o r.ev]

\* the positions of the events e on node n
At(E, e, n) == {i \in 1..Len(E) : E[i] = Event(e, n)}

\* C25: clear() destroys the key of each real node exactly once, before
\* or when that node's slot is returned to the pool, and never destroys
\* the key of the head sentinel.
C25_ClearDestroysKeys ==
  [][\A s \in SetIds :
       (last'.op = "clear" /\ last'.s = s) =>
         LET h == sets[s].head
             r == clear_run(mem, sets[s].data, h, h)
             T == Tree(s)
         IN /\ mem' = reset_head(r.mem, h)
            /\ \A i \in 1..Len(T) :
                 /\ Cardinality(At(r.ev, "destroy", T[i])) = 1
                 /\ Cardinality(At(r.ev, "deallocate", T[i])) = 1
                 /\ \A a \in At(r.ev, "destroy", T[i]) :
                      \A b \in At(r.ev, "deallocate", T[i]) : a < b
            /\ At(r.ev, "destroy", h) = {}]_vars

\* C26: during clear() no link or tag of a node is read after that node's
\* block has been returned to the pool: every node inorder_successor reads
\* is the head or a node not yet deallocated.
C26_ClearReadsLiveNodes ==
  [][\A s \in SetIds :
       (last'.op = "clear" /\ last'.s = s) =>
         LET h == sets[s].head
             r == clear_run(mem, sets[s].data, h, h)
             T == Tree(s)
         IN /\ mem' = reset_head(r.mem, h)
            /\ \A i \in 1..Len(T) : At(r.ev, "deallocate", T[i]) # {}
            /\ \A i \in 1..Len(r.ev) :
                 r.ev[i].ev = "read" =>
                   /\ r.ev[i].n \in Range(T) \cup {h}
                   /\ \A j \in At(r.ev, "deallocate", r.ev[i].n) : i < j]_vars

\* clear() has just emptied a set of three nodes: the blocks are on the
\* free list again and still hold the keys, and the block of the least
\* key is the one whose node had a right subtree to descend into
C26_Witness ==
  /\ last.op = "clear" /\ ~terminated /\ sets["A"].live
  /\ set_empty(mem, sets["A"].head)
  /\ \E a, b, c \in Range(FreeList(mem, Base)) :
       /\ key(mem, a) = 1 /\ key(mem, b) = 2 /\ key(mem, c) = 3
       /\ ~has_null_rlink(tag(mem, a)) /\ rlink(mem, a) = c
       /\ ~has_null_llink(tag(mem, c))

\* ------------------------------------------ two handles, one free list
\* the blocks the nodes of set s occupy in memory m: its head and its tree
NodesOf(m, ss, s) == {ss[s].head} \cup Range(TreeInorder(m, ss[s].head))

\* C27: when two sets hold allocator handles over the same buffer with
\* the same node size, under every interleaving of their operations they
\* observe one shared free list: no block is owned by nodes of both sets at
\* once, an insert of either set takes the block on top of the list
\* whichever set put it there, and the blocks clear() or the destructor of
\* one set returns are on the list the other set allocates from.
C27_OneFreeList ==
  [][~terminated' =>
       LET F == FreeList(mem, Base)
           G == FreeList(mem', Base)
           live == {s \in SetIds : sets'[s].live}
       IN /\ \A s \in live : sets'[s].data = Base
          /\ \A s, t \in live :
               s # t => NodesOf(mem', sets', s) \cap NodesOf(mem', sets', t) = {}
          /\ \A s \in live : NodesOf(mem', sets', s) \cap Range(G) = {}
          /\ (last'.op = "insert" /\ last'.ok) =>
               /\ F # <<>> /\ last'.ret = Head(F) /\ G = Tail(F)
               /\ last'.ret \in NodesOf(mem', sets', last'.s)
          /\ last'.op = "clear" =>
               G = Reverse(TreeInorder(mem, sets[last'.s].head)) \o F
          /\ last'.op = "destroy" =>
               G = <<sets[last'.s].head>>
                     \o Reverse(TreeInorder(mem, sets[last'.s].head)) \o F]_vars

\* A has just cleared a tree while B holds a node: the top of the free
\* list is the block of A's last node (its right thread still points at
\* A's head), the block B's next insert takes
C27_Witness ==
  /\ ~terminated /\ LiveSets = SetIds
  /\ last.op = "clear" /\ last.s = "A"
  /\ Len(Tree("B")) >= 1
  /\ LET t == mem[Base + PtrSize] IN
       /\ t # NULL
       /\ has_null_rlink(tag(mem, t))
       /\ rlink(mem, t) = sets["A"].head

\* --------------------------------------------- the prototype's capacity
\* the nodes of the prototype's tree and their keys
ProtoTree(m, av) == ProtoNodes(m, av) \ {HeadAddr}
ProtoKeys(m, av) == {key(m, n) : n \in ProtoTree(m, av)}

\* C28: in the prototype built with reserve_n exactly max(reserve_n, 1)
\* inserts of distinct keys succeed; every further insert of a new key
\* returns (end(), false) and changes neither the tree nor avail, and an
\* insert of a key already present returns (cursor to it, false) without
\* taking a node from avail.
C28_ProtoCapacity ==
  [][last'.op = "insert" =>
       LET K == ProtoKeys(mem, bst.avail)
           cap == IF bst.reserve_n > 1 THEN bst.reserve_n ELSE 1
           k == last'.k
       IN /\ Cardinality(ProtoTree(mem, bst.avail)) = Cardinality(K)
          /\ Cardinality(K) <= cap
          /\ IF k \in K
               THEN /\ ~last'.ok
                    /\ last'.ret \in ProtoTree(mem, bst.avail)
                    /\ key(mem, last'.ret) = k
                    /\ mem' = mem /\ bst' = bst
               ELSE IF Cardinality(K) < cap
                 THEN /\ last'.ok
                      /\ last'.ret = bst.avail
                      /\ bst'.avail = llink(mem, bst.avail)
                      /\ ProtoKeys(mem', bst'.avail) = K \cup {k}
                 ELSE /\ ~last'.ok
                      /\ last'.ret = bst_end
                      /\ mem' = mem /\ bst' = bst]_vars

\* a prototype built with reserve_n = 2 holds the keys 1 and 2 and has
\* just refused the key 3
C28_Witness ==
  /\ bst.reserve_n = 2
  /\ last.op = "insert" /\ ~last.ok /\ last.k = 3 /\ last.ret = bst_end
  /\ bst.avail = NULL
  /\ ProtoKeys(mem, bst.avail) = {1, 2}

\* C29: in the prototype begin() and rbegin() terminate in every
\* reachable state, the empty tree included: begin() returns the node of
\* least key and rbegin() the node of greatest key, and on the empty tree
\* begin() = end() and rbegin() = rend().
C29_BeginRbegin ==
  LET K == ProtoKeys(mem, bst.avail)
      b == bst_begin(mem)
      r == bst_rbegin(mem)
  IN /\ ~bst.hung
     /\ b # Bad /\ r # Bad
     /\ K = {} => b = bst_end /\ r = bst_rend
     /\ K # {} =>
          /\ b \in ProtoTree(mem, bst.avail) /\ \A k \in K : key(mem, b) <= k
          /\ r \in ProtoTree(mem, bst.avail) /\ \A k \in K : k <= key(mem, r)

====
